---- MODULE Spec2Model ----
(***************************************************************************)
(* Granola-to-Craft daily sync (src/granola_to_craft.py).                  *)
(*                                                                         *)
(* Text is modelled as a sequence of code points, one TLA+ string per code *)
(* point: an ASCII character stands for itself, any other code point is    *)
(* written "U+XXXX".  Python's None is the value None below, which no text *)
(* equals (NoneList where a list is expected).  A JSON object is a record; a key the object lacks is a field   *)
(* the record lacks.                                                       *)
(***************************************************************************)
EXTENDS Integers, Sequences, FiniteSets, TLC

VARIABLES
    pc,                  \* position of main: start, header, panels, transcript, send, done
    yesterday,           \* main's yesterday, a date [y, m, d]
    docs,                \* main's docs
    target_docs,         \* main's target_docs
    idx,                 \* position of the for loop in target_docs
    summary_html,        \* main's summary_html
    content_md,          \* main's content_md
    transcript_segments, \* main's transcript_segments
    transcript_text,     \* main's transcript_text
    meeting_blocks,      \* main's meeting_blocks
    success,             \* main's success
    log,                 \* every HTTP request made so far, with its outcome
    call                 \* a direct call of one function: [fn, arg, ret]

vars == <<pc, yesterday, docs, target_docs, idx, summary_html, content_md,
          transcript_segments, transcript_text, meeting_blocks, success, log, call>>

-----------------------------------------------------------------------------
(* Python values and string literals of the source                         *)

None == <<"None">>
\* None where a list of objects is expected
NoneList == <<[py |-> "None"]>>
PyTrue == "True"
PyFalse == "False"
PyNone == "None"

Truthy(v) == v = PyTrue

NoSummary == <<"N", "o", " ", "s", "u", "m", "m", "a", "r", "y", " ", "a", "v", "a", "i", "l", "a", "b", "l", "e", ".">>
NoTranscript == <<"N", "o", " ", "t", "r", "a", "n", "s", "c", "r", "i", "p", "t", " ", "a", "v", "a", "i", "l", "a", "b", "l", "e", ".">>
UntitledMeeting == <<"U", "n", "t", "i", "t", "l", "e", "d", " ", "M", "e", "e", "t", "i", "n", "g">>
TruncatedSuffix == <<"\n", "\n", ".", ".", ".", " ", "(", "t", "r", "a", "n", "s", "c", "r", "i", "p", "t", " ", "t", "o", "o", " ", "l", "o", "n", "g", ",", " ", "t", "r", "u", "n", "c", "a", "t", "e", "d", ")">>
MicPrefix == <<"U+1F399", "U+FE0F", " ">>
SysPrefix == <<"U+1F4BB", " ">>
HeaderPrefix == <<"U+2615", "U+FE0F", " ", "G", "r", "a", "n", "o", "l", "a", " ", "M", "e", "e", "t", "i", "n", "g", "s", " ", "(">>
FullTranscriptTitle == <<"U+1F4C4", " ", "F", "u", "l", "l", " ", "T", "r", "a", "n", "s", "c", "r", "i", "p", "t">>
Separator == <<"-", "-", "-">>
SummaryTitle == <<"S", "u", "m", "m", "a", "r", "y">>
Microphone == <<"m", "i", "c", "r", "o", "p", "h", "o", "n", "e">>
UnknownSource == <<"u", "n", "k", "n", "o", "w", "n">>
NoneText == <<"N", "o", "n", "e">>

-----------------------------------------------------------------------------
(* str methods                                                             *)

\* the characters str.strip() removes, among those the model uses
Whitespace == {" ", "\n", "\t"}

RECURSIVE lstrip(_)
lstrip(s) ==
    IF s = <<>> \/ Head(s) \notin Whitespace THEN s ELSE lstrip(Tail(s))

RECURSIVE rstrip(_)
rstrip(s) ==
    IF s = <<>> \/ s[Len(s)] \notin Whitespace THEN s
    ELSE rstrip(SubSeq(s, 1, Len(s) - 1))

strip(s) == lstrip(rstrip(s))

startswith(s, prefix) ==
    Len(s) >= Len(prefix) /\ SubSeq(s, 1, Len(prefix)) = prefix

\* dict.get(key, default)
Get(d, key, default) == IF key \in DOMAIN d THEN d[key] ELSE default

\* the length of the run of c that starts at s[i]
RECURSIVE RunLength(_, _, _)
RunLength(s, i, c) ==
    IF i > Len(s) \/ s[i] # c THEN 0 ELSE 1 + RunLength(s, i + 1, c)

\* re.sub(r'\n{3,}', '\n\n', text)
RECURSIVE CollapseNewlinesFrom(_, _)
CollapseNewlinesFrom(s, i) ==
    IF i > Len(s) THEN <<>>
    ELSE IF s[i] = "\n"
         THEN LET run == RunLength(s, i, "\n")
              IN  (IF run >= 3 THEN <<"\n", "\n">> ELSE SubSeq(s, i, i + run - 1))
                  \o CollapseNewlinesFrom(s, i + run)
         ELSE <<s[i]>> \o CollapseNewlinesFrom(s, i + 1)

CollapseNewlines(s) == CollapseNewlinesFrom(s, 1)

-----------------------------------------------------------------------------
(* BeautifulSoup(html_content, 'html.parser')                              *)
(*                                                                         *)
(* The tokenizer is Python's html.parser with convert_charrefs off, as bs4 *)
(* runs it, for the markup the model feeds it: start tags with an optional *)
(* double-quoted href, end tags, the references &lt; &gt; &amp; and text.  *)
(* Tag names are lower case in every input, so lower-casing is left out.   *)
(* The tree builder is bs4's: a start tag opens an element inside the      *)
(* current one (nothing is closed implicitly), an end tag closes elements  *)
(* up to the most recent open element of that name and is ignored when     *)
(* there is none, and the end of input closes whatever is open.  A '<'     *)
(* that no letter or '/' follows, or whose tag the input ends before       *)
(* closing, is text.                                                       *)

\* [a-zA-Z]: what may follow '<' in a tag
Letters ==
    {"a", "b", "c", "d", "e", "f", "g", "h", "i", "j", "k", "l", "m",
     "n", "o", "p", "q", "r", "s", "t", "u", "v", "w", "x", "y", "z",
     "A", "B", "C", "D", "E", "F", "G", "H", "I", "J", "K", "L", "M",
     "N", "O", "P", "Q", "R", "S", "T", "U", "V", "W", "X", "Y", "Z"}

\* HTML_ENTITY_TO_CHARACTER, for the references the model uses
EntityNames == {<<"l", "t">>, <<"g", "t">>, <<"a", "m", "p">>}
EntityChar(name) ==
    CASE name = <<"l", "t">> -> "<"
      [] name = <<"g", "t">> -> ">"
      [] OTHER -> "&"

TextNode(t) == [kind |-> "text", name |-> <<>>, attrs |-> <<>>, kids |-> <<>>, text |-> t]
TagNode(name, attrs) == [kind |-> "tag", name |-> name, attrs |-> attrs, kids |-> <<>>, text |-> <<>>]
RootName == <<"[", "d", "o", "c", "u", "m", "e", "n", "t", "]">>

\* handle_data, handle_entityref: text goes into the current element
handle_data(stack, t) ==
    [stack EXCEPT ![Len(stack)].kids = Append(@, TextNode(t))]

\* handle_starttag (pushTag)
handle_starttag(stack, name, attrs) == Append(stack, TagNode(name, attrs))

\* popTag: the current element is complete, as the last child of its parent
popTag(stack) ==
    LET n == Len(stack)
    IN  [SubSeq(stack, 1, n - 1) EXCEPT ![n - 1].kids = Append(@, stack[n])]

RECURSIVE PopTo(_, _)
PopTo(stack, k) == IF Len(stack) < k THEN stack ELSE PopTo(popTag(stack), k)

\* handle_endtag (_popToTag): up to and including the most recent open name
handle_endtag(stack, name) ==
    LET open == {k \in 2..Len(stack) : stack[k].name = name}
    IN  IF open = {} THEN stack
        ELSE PopTo(stack, CHOOSE k \in open : \A j \in open : j <= k)

\* the index of the first c at or after s[i], 0 when there is none
RECURSIVE Find(_, _, _)
Find(s, i, c) ==
    IF i > Len(s) THEN 0 ELSE IF s[i] = c THEN i ELSE Find(s, i + 1, c)

\* the '>' that ends the start tag whose name begins at s[i]; a '>' inside a
\* double-quoted attribute value does not end it.  0: the tag is not complete
RECURSIVE TagEnd(_, _, _)
TagEnd(s, i, quoted) ==
    IF i > Len(s) THEN 0
    ELSE IF quoted THEN TagEnd(s, i + 1, s[i] # "\"")
    ELSE IF s[i] = ">" THEN i
    ELSE TagEnd(s, i + 1, s[i] = "\"" /\ s[i - 1] = "=")

\* the end of the tag name that begins at s[i]: it runs up to white space, / or >
RECURSIVE NameEnd(_, _)
NameEnd(s, i) ==
    IF i + 1 > Len(s) \/ s[i + 1] \in Whitespace \cup {"/", ">"} THEN i
    ELSE NameEnd(s, i + 1)

HrefEquals == <<" ", "h", "r", "e", "f", "=", "\"">>

\* the attributes of a start tag, of which the program reads href alone
ParseAttrs(region) ==
    LET at == {k \in 1..Len(region) : startswith(SubSeq(region, k, Len(region)), HrefEquals)}
    IN  IF at = {} THEN <<>>
        ELSE LET k == CHOOSE k \in at : \A j \in at : k <= j
                 from == k + Len(HrefEquals)
                 to == Find(region, from, "\"")
             IN  IF to = 0 THEN <<>> ELSE [href |-> SubSeq(region, from, to - 1)]

\* HTMLParser.goahead, then close(): the tree of the whole input
RECURSIVE Feed(_, _, _)
Feed(s, i, stack) ==
    IF i > Len(s) THEN PopTo(stack, 2)[1]
    ELSE IF s[i] = "<" /\ i < Len(s) /\ s[i + 1] \in Letters
    THEN LET gt == TagEnd(s, i + 1, FALSE)
             ne == NameEnd(s, i + 1)
             name == SubSeq(s, i + 1, ne)
             closed == s[gt - 1] = "/"
             attrs == ParseAttrs(SubSeq(s, ne + 1, gt - 1))
             opened == handle_starttag(stack, name, attrs)
         IN  IF gt = 0 THEN Feed(s, i + 1, handle_data(stack, <<"<">>))
             ELSE Feed(s, gt + 1, IF closed THEN handle_endtag(opened, name) ELSE opened)
    ELSE IF s[i] = "<" /\ i + 1 < Len(s) /\ s[i + 1] = "/" /\ s[i + 2] \in Letters
    THEN LET gt == Find(s, i + 2, ">")
         IN  IF gt = 0 THEN Feed(s, i + 1, handle_data(stack, <<"<">>))
             ELSE Feed(s, gt + 1, handle_endtag(stack, strip(SubSeq(s, i + 2, gt - 1))))
    ELSE IF s[i] = "&"
    THEN LET semi == Find(s, i + 1, ";")
             name == SubSeq(s, i + 1, semi - 1)
         IN  IF semi # 0 /\ name \in EntityNames
             THEN Feed(s, semi + 1, handle_data(stack, <<EntityChar(name)>>))
             ELSE Feed(s, i + 1, handle_data(stack, <<"&">>))
    ELSE Feed(s, i + 1, handle_data(stack, <<s[i]>>))

BeautifulSoup(html) == Feed(html, 1, <<TagNode(RootName, <<>>)>>)

\* Tag.get_text(): the text of every string below the node, in document order
RECURSIVE get_text(_)
get_text(node) ==
    IF node.kind = "text" THEN node.text
    ELSE LET RECURSIVE Cat(_)
             Cat(k) == IF k > Len(node.kids) THEN <<>>
                       ELSE get_text(node.kids[k]) \o Cat(k + 1)
         IN  Cat(1)

\* str(a.get('href'))
HrefText(tag) == IF "href" \in DOMAIN tag.attrs THEN tag.attrs.href ELSE NoneText

\* the string each rule puts in the place of a matching element
Replacement(rule, tag) ==
    CASE rule = "h3" -> <<"#", "#", "#", " ">> \o get_text(tag) \o <<"\n">>
      [] rule = "li" -> <<"-", " ">> \o get_text(tag) \o <<"\n">>
      [] rule = "p" -> get_text(tag) \o <<"\n", "\n">>
      [] rule = "a" -> <<"[">> \o get_text(tag) \o <<"]", "(">> \o HrefText(tag) \o <<")">>

RuleTag(rule) ==
    CASE rule = "h3" -> <<"h", "3">>
      [] rule = "li" -> <<"l", "i">>
      [] rule = "p" -> <<"p">>
      [] rule = "a" -> <<"a">>

\* for el in soup.find_all(name): el.replace_with(...).  find_all lists the
\* elements before any is replaced, outermost first; replacing an element
\* that sits inside one already replaced changes nothing in the soup
RECURSIVE replace_all(_, _)
replace_all(node, rule) ==
    IF node.kind = "text" THEN node
    ELSE [node EXCEPT !.kids =
            [k \in 1..Len(node.kids) |->
                IF node.kids[k].kind = "tag" /\ node.kids[k].name = RuleTag(rule)
                THEN TextNode(Replacement(rule, node.kids[k]))
                ELSE replace_all(node.kids[k], rule)]]

\* html_to_markdown without its re.sub
html_to_markdown_uncollapsed(html_content) ==
    IF html_content = <<>> \/ html_content = None THEN <<>>
    ELSE strip(get_text(replace_all(replace_all(replace_all(replace_all(
                    BeautifulSoup(html_content), "h3"), "li"), "p"), "a")))

html_to_markdown(html_content) ==
    IF html_content = <<>> \/ html_content = None THEN <<>>
    ELSE LET soup == replace_all(replace_all(replace_all(replace_all(
                        BeautifulSoup(html_content), "h3"), "li"), "p"), "a")
             text == CollapseNewlines(get_text(soup))
         IN  strip(text)

-----------------------------------------------------------------------------
(* The functions of the module                                             *)

\* the loop of format_transcript from segment k on: what it adds to formatted
RECURSIVE FormatSegments(_, _)
FormatSegments(segments, k) ==
    IF k > Len(segments) THEN <<>>
    ELSE LET seg == segments[k]
             text == strip(Get(seg, "text", <<>>))
             source == Get(seg, "source", UnknownSource)
             prefix == IF source = Microphone THEN MicPrefix ELSE SysPrefix
         IN  (IF text # <<>> THEN prefix \o text \o <<"\n", "\n">> ELSE <<>>)
             \o FormatSegments(segments, k + 1)

\* format_transcript without the strip of its result
format_transcript_unstripped(segments) ==
    IF segments = <<>> \/ segments = NoneList THEN NoTranscript
    ELSE FormatSegments(segments, 1)

format_transcript(segments) ==
    IF segments = <<>> \/ segments = NoneList THEN NoTranscript
    ELSE strip(FormatSegments(segments, 1))

DigitChars == <<"0", "1", "2", "3", "4", "5", "6", "7", "8", "9">>
Digit(n) == DigitChars[n + 1]

\* date.isoformat(): YYYY-MM-DD
isoformat(d) ==
    <<Digit(d.y \div 1000), Digit((d.y \div 100) % 10), Digit((d.y \div 10) % 10), Digit(d.y % 10),
      "-", Digit(d.m \div 10), Digit(d.m % 10), "-", Digit(d.d \div 10), Digit(d.d % 10)>>

\* filter_meetings_by_date testing for the date anywhere in created_at's first
\* characters but the last: the day's last digit goes unchecked
filter_meetings_by_date_short(documents, target_date) ==
    LET date_str == SubSeq(isoformat(target_date), 1, 9)
    IN  SelectSeq(documents, LAMBDA d : startswith(Get(d, "created_at", <<>>), date_str))

filter_meetings_by_date(documents, target_date) ==
    LET date_str == isoformat(target_date)
    IN  SelectSeq(documents, LAMBDA d : startswith(Get(d, "created_at", <<>>), date_str))

\* An HTTP exchange as the program sees it: status 0 is a transport error (the
\* request raises), otherwise the response's status code and its JSON body
Raises(resp) == resp.status = 0 \/ (resp.status >= 400 /\ resp.status < 600)

\* a fetch that reads the body whatever the status
FetchResultIgnoringStatus(resp) == resp.json

\* get_granola_documents, get_document_panels, get_document_transcript:
\* response.json(), or [] when the request or raise_for_status raises
FetchResult(resp) == IF Raises(resp) THEN <<>> ELSE resp.json

get_granola_documents(resp) == FetchResult(resp)
get_document_panels(resp) == FetchResult(resp)
get_document_transcript(resp) == FetchResult(resp)

\* send_blocks_to_craft: its return value and the requests it makes
send_blocks_to_craft(blocks, target_date_str, resp) ==
    IF blocks = <<>> THEN [ret |-> PyNone, requests |-> <<>>]
    ELSE [ret |-> IF Raises(resp) THEN PyFalse ELSE PyTrue,
          requests |-> <<[op |-> "blocks",
                          payload |-> [blocks |-> blocks,
                                       position |-> [position |-> "end", date |-> target_date_str]],
                          resp |-> resp]>>]

\* the header as a second-level heading
HeaderBlocksAsH2(yesterday_str) ==
    <<[type |-> "text", textStyle |-> "h2",
       markdown |-> HeaderPrefix \o yesterday_str \o <<")">>]>>

\* the block main sends first
HeaderBlocks(yesterday_str) ==
    <<[type |-> "text", textStyle |-> "h1",
       markdown |-> HeaderPrefix \o yesterday_str \o <<")">>]>>

TRANSCRIPT_LIMIT == 50000

\* the markdown of the block inside the transcript page
TranscriptPageText(text) ==
    IF Len(text) < TRANSCRIPT_LIMIT THEN text
    ELSE SubSeq(text, 1, TRANSCRIPT_LIMIT) \o TruncatedSuffix

\* doc.get("title") alone
TitleOfNoDefault(doc) == Get(doc, "title", None)

\* doc.get("title") or "Untitled Meeting"
TitleOf(doc) ==
    LET t == Get(doc, "title", None)
    IN  IF t = None \/ t = <<>> THEN UntitledMeeting ELSE t

\* the loop over panels: the first panel titled Summary ends it
RECURSIVE SummaryHtmlFrom(_, _)
SummaryHtmlFrom(panel_list, k) ==
    IF k > Len(panel_list) THEN <<>>
    ELSE IF Get(panel_list[k], "title", None) = SummaryTitle
         THEN Get(panel_list[k], "original_content", <<>>)
         ELSE SummaryHtmlFrom(panel_list, k + 1)

\* the loop over panels without its break: the last panel titled Summary wins
RECURSIVE SummaryHtmlLastFrom(_, _, _)
SummaryHtmlLastFrom(panel_list, k, html) ==
    IF k > Len(panel_list) THEN html
    ELSE SummaryHtmlLastFrom(panel_list, k + 1,
            IF Get(panel_list[k], "title", None) = SummaryTitle
            THEN Get(panel_list[k], "original_content", <<>>) ELSE html)

SummaryHtmlLast(panel_list) == SummaryHtmlLastFrom(panel_list, 1, <<>>)

SummaryHtml(panel_list) == SummaryHtmlFrom(panel_list, 1)

\* html_to_markdown(summary_html) if summary_html else "No summary available."
ContentMd(html) ==
    IF html = <<>> \/ html = None THEN NoSummary ELSE html_to_markdown(html)

MeetingBlocks(title, md, text) ==
    <<[type |-> "text", textStyle |-> "h2", markdown |-> title],
      [type |-> "text", markdown |-> md],
      [type |-> "page", textStyle |-> "card", markdown |-> FullTranscriptTitle,
       content |-> <<[type |-> "text", markdown |-> TranscriptPageText(text)]>>],
      [type |-> "text", markdown |-> Separator]>>

-----------------------------------------------------------------------------
(* main, one action per stretch of code between two HTTP exchanges.  Each  *)
(* action takes the response the exchange gets.                            *)

NoCall == [fn |-> "none", arg |-> <<>>, resp |-> [status |-> 200], ret |-> PyNone]

\* lines 138-145
FetchDocuments(resp) ==
    /\ pc = "start"
    /\ LET fetched == get_granola_documents(resp)
           selected == filter_meetings_by_date(fetched, yesterday)
       IN  /\ docs' = fetched
           /\ target_docs' = selected
           /\ pc' = IF selected = <<>> THEN "done" ELSE "header"
    /\ log' = Append(log, [op |-> "get-documents", resp |-> resp])
    /\ UNCHANGED <<yesterday, idx, summary_html, content_md, transcript_segments,
                   transcript_text, meeting_blocks, success, call>>

\* lines 148-154: the header, then the loop starts
SendHeader(resp) ==
    /\ pc = "header"
    /\ log' = log \o send_blocks_to_craft(HeaderBlocks(isoformat(yesterday)),
                                          isoformat(yesterday), resp).requests
    /\ idx' = 1
    /\ pc' = "panels"
    /\ UNCHANGED <<yesterday, docs, target_docs, summary_html, content_md,
                   transcript_segments, transcript_text, meeting_blocks, success, call>>

\* lines 155-165
FetchPanels(resp) ==
    /\ pc = "panels"
    /\ LET html == SummaryHtml(get_document_panels(resp))
       IN  /\ summary_html' = html
           /\ content_md' = ContentMd(html)
    /\ log' = Append(log, [op |-> "get-document-panels",
                           document_id |-> target_docs[idx].id, resp |-> resp])
    /\ pc' = "transcript"
    /\ UNCHANGED <<yesterday, docs, target_docs, idx, transcript_segments,
                   transcript_text, meeting_blocks, success, call>>

\* lines 168-197
FetchTranscript(resp) ==
    /\ pc = "transcript"
    /\ LET segments == get_document_transcript(resp)
           text == format_transcript(segments)
       IN  /\ transcript_segments' = segments
           /\ transcript_text' = text
           /\ meeting_blocks' = MeetingBlocks(TitleOf(target_docs[idx]), content_md, text)
    /\ log' = Append(log, [op |-> "get-document-transcript",
                           document_id |-> target_docs[idx].id, resp |-> resp])
    /\ pc' = "send"
    /\ UNCHANGED <<yesterday, docs, target_docs, idx, summary_html, content_md,
                   success, call>>

\* the loop ending at the first failed submission
SendMeetingStopsOnFailure(resp) ==
    /\ pc = "send"
    /\ LET sent == send_blocks_to_craft(meeting_blocks, isoformat(yesterday), resp)
       IN  /\ success' = sent.ret
           /\ log' = log \o sent.requests
           /\ pc' = IF idx + 1 > Len(target_docs) \/ ~Truthy(sent.ret) THEN "done" ELSE "panels"
    /\ idx' = idx + 1
    /\ UNCHANGED <<yesterday, docs, target_docs, summary_html, content_md,
                   transcript_segments, transcript_text, meeting_blocks, call>>

\* lines 199-203, and the loop's next round
SendMeeting(resp) ==
    /\ pc = "send"
    /\ LET sent == send_blocks_to_craft(meeting_blocks, isoformat(yesterday), resp)
       IN  /\ success' = sent.ret
           /\ log' = log \o sent.requests
    /\ idx' = idx + 1
    /\ pc' = IF idx + 1 > Len(target_docs) THEN "done" ELSE "panels"
    /\ UNCHANGED <<yesterday, docs, target_docs, summary_html, content_md,
                   transcript_segments, transcript_text, meeting_blocks, call>>

-----------------------------------------------------------------------------
(* The environment: the dates the program may run on and the responses the *)
(* two services may give, bounded                                          *)

MaxDocs == 3
MaxDocsContent == 1
MaxSegs == 3
MaxFrags == 3
MaxBlocks == 2
NearLimit == 1

SeqsUpTo(S, n) == UNION {[1..k -> S] : k \in 0..n}

RECURSIVE Flatten(_)
Flatten(ss) == IF ss = <<>> THEN <<>> ELSE Head(ss) \o Flatten(Tail(ss))

Day1 == [y |-> 2024, m |-> 3, d |-> 9]
Day2 == [y |-> 2024, m |-> 3, d |-> 10]
Dates == {Day1, Day2}

Morning == <<"T", "0", "9", ":", "3", "0", "Z">>

DocA == [id |-> "a", title |-> <<"S", "t", "a", "n", "d", "u", "p">>,
         created_at |-> isoformat(Day1) \o Morning]
DocB == [id |-> "b", created_at |-> isoformat(Day1)]
DocC == [id |-> "c", title |-> <<>>, created_at |-> isoformat(Day2) \o Morning]
DocD == [id |-> "d", title |-> <<"R", "e", "t", "r", "o">>,
         created_at |-> <<"2", "0", "2", "4", "-", "0", "3", "-", "1">>]
DocE == [id |-> "e", title |-> None, created_at |-> isoformat(Day2)]
DocF == [id |-> "f", title |-> <<"1", ":", "1">>]
DocPool == {DocA, DocB, DocC, DocD, DocE, DocF}
OrderPool == {DocA, DocB, DocD, DocF}

\* a transport error, and an error status whose body the program never reads
Failed == {[status |-> 0, json |-> <<>>], [status |-> 500, json |-> <<>>]}
FailedWith(json) == [status |-> 404, json |-> json]
Ok(json) == [status |-> 200, json |-> json]

P(t) == <<"<", "p", ">">> \o t \o <<"<", "/", "p", ">">>
H3(t) == <<"<", "h", "3", ">">> \o t \o <<"<", "/", "h", "3", ">">>

Panel(title, html) == [title |-> title, original_content |-> html]
NotesTitle == <<"N", "o", "t", "e", "s">>
LowerSummaryTitle == <<"s", "u", "m", "m", "a", "r", "y">>

PanelsSmall ==
    {[status |-> 500, json |-> <<>>],
     Ok(<<Panel(NotesTitle, P(<<"y">>)), Panel(SummaryTitle, P(<<"x">>))>>)}

PanelsRich ==
    Failed \cup
    {FailedWith(<<Panel(SummaryTitle, P(<<"y">>))>>),
     Ok(<<>>),
     Ok(<<Panel(SummaryTitle, P(<<"x">>))>>),
     Ok(<<Panel(NotesTitle, P(<<"y">>)), Panel(SummaryTitle, H3(<<"x">>)),
          Panel(SummaryTitle, P(<<"y">>))>>),
     Ok(<<Panel(LowerSummaryTitle, P(<<"x">>))>>),
     Ok(<<Panel(SummaryTitle, <<>>), Panel(SummaryTitle, P(<<"x">>))>>),
     Ok(<<[original_content |-> P(<<"y">>)], [title |-> SummaryTitle]>>),
     Ok(<<Panel(SummaryTitle, P(<<>>))>>)}

Seg(text, source) == [text |-> text, source |-> source]
SystemSource == <<"s", "y", "s", "t", "e", "m">>

SegPool ==
    {Seg(<<" ", "h", "i", " ">>, Microphone),
     Seg(<<"o", " ", "k", "\n">>, SystemSource),
     Seg(<<" ", "\n">>, Microphone),
     [source |-> Microphone],
     [text |-> <<"y", "o">>]}

\* a text of n characters
Pad(n) == [i \in 1..n |-> IF i = n THEN "z" ELSE "a"]

\* one-segment transcripts whose formatted length is close to the limit
LongTranscripts ==
    {<<Seg(Pad(n), source)>> :
        n \in (TRANSCRIPT_LIMIT - 3 - NearLimit)..(TRANSCRIPT_LIMIT - 2 + NearLimit),
        source \in {Microphone, SystemSource}}

TranscriptsSmall ==
    {[status |-> 500, json |-> <<>>],
     Ok(<<Seg(<<" ", "h", "i", " ">>, Microphone)>>)}

TranscriptsRich ==
    Failed \cup
    {FailedWith(<<Seg(<<"y", "o">>, Microphone)>>),
     Ok(<<>>), Ok(NoneList),
     Ok(<<Seg(<<" ", "h", "i", " ">>, Microphone), Seg(<<"o", " ", "k", "\n">>, SystemSource)>>),
     Ok(<<Seg(<<" ", "\n">>, Microphone)>>)}

TranscriptsAll ==
    {Ok(NoneList)} \cup {Ok(l) : l \in SeqsUpTo(SegPool, MaxSegs) \cup LongTranscripts}

HtmlFragments ==
    {<<"<", "p", ">">>, <<"<", "/", "p", ">">>,
     <<"<", "h", "3", ">">>, <<"<", "/", "h", "3", ">">>,
     <<"<", "l", "i", ">">>, <<"<", "/", "l", "i", ">">>,
     <<"<", "a", " ", "h", "r", "e", "f", "=", "\"", "u", "\"", ">">>, <<"<", "a", ">">>,
     <<"<", "/", "a", ">">>, <<"<", "b", ">">>,
     <<"x">>, <<" ">>, <<"\n", "\n", "\n">>, <<">">>,
     <<"&", "l", "t", ";">>, <<"&", "g", "t", ";">>}

HtmlInputs == {Flatten(fs) : fs \in SeqsUpTo(HtmlFragments, MaxFrags)}

DocumentsOf(pool, n) ==
    Failed \cup {FailedWith(<<DocA>>)} \cup {Ok(l) : l \in SeqsUpTo(pool, n)}

SendsSmall == {[status |-> 200], [status |-> 500]}
SendsAll == {[status |-> 200], [status |-> 500], [status |-> 0]}

-----------------------------------------------------------------------------
(* Specifications: main under four bounded environments                    *)

Init ==
    /\ pc = "start"
    /\ yesterday \in Dates
    /\ docs = <<>>
    /\ target_docs = <<>>
    /\ idx = 0
    /\ summary_html = <<>>
    /\ content_md = <<>>
    /\ transcript_segments = <<>>
    /\ transcript_text = <<>>
    /\ meeting_blocks = <<>>
    /\ success = PyNone
    /\ log = <<>>
    /\ call = NoCall

\* many meetings, few kinds of response
Next ==
    \/ pc = "start" /\ \E resp \in DocumentsOf(OrderPool, MaxDocs) : FetchDocuments(resp)
    \/ pc = "header" /\ \E resp \in SendsSmall : SendHeader(resp)
    \/ pc = "panels" /\ \E resp \in PanelsSmall : FetchPanels(resp)
    \/ pc = "transcript" /\ \E resp \in TranscriptsSmall : FetchTranscript(resp)
    \/ pc = "send" /\ \E resp \in SendsSmall : SendMeeting(resp)

Spec == Init /\ [][Next]_vars

\* few meetings, every kind of response
NextContent ==
    \/ pc = "start" /\ \E resp \in DocumentsOf(DocPool, MaxDocsContent) : FetchDocuments(resp)
    \/ pc = "header" /\ \E resp \in SendsAll : SendHeader(resp)
    \/ pc = "panels" /\ \E resp \in PanelsRich : FetchPanels(resp)
    \/ pc = "transcript" /\ \E resp \in TranscriptsRich : FetchTranscript(resp)
    \/ pc = "send" /\ \E resp \in SendsAll : SendMeeting(resp)

SpecContent == Init /\ [][NextContent]_vars

\* one meeting, every transcript
NextTranscript ==
    \/ pc = "start" /\ \E resp \in {Ok(<<DocA>>)} : FetchDocuments(resp)
    \/ pc = "header" /\ \E resp \in {[status |-> 200]} : SendHeader(resp)
    \/ pc = "panels" /\ \E resp \in {Ok(<<>>)} : FetchPanels(resp)
    \/ pc = "transcript" /\ \E resp \in TranscriptsAll : FetchTranscript(resp)
    \/ pc = "send" /\ \E resp \in {[status |-> 200]} : SendMeeting(resp)

SpecTranscript == Init /\ [][NextTranscript]_vars

\* one meeting, every summary
NextConvert ==
    \/ pc = "start" /\ \E resp \in {Ok(<<DocA>>)} : FetchDocuments(resp)
    \/ pc = "header" /\ \E resp \in {[status |-> 200]} : SendHeader(resp)
    \/ pc = "panels" /\ \E resp \in {Ok(<<Panel(SummaryTitle, html)>>) : html \in HtmlInputs} : FetchPanels(resp)
    \/ pc = "transcript" /\ \E resp \in {Ok(<<>>)} : FetchTranscript(resp)
    \/ pc = "send" /\ \E resp \in {[status |-> 200]} : SendMeeting(resp)

SpecConvert == Init /\ [][NextConvert]_vars

\* send_blocks_to_craft called on its own
BlockPool ==
    {HeaderBlocks(isoformat(Day1))[1],
     [type |-> "text", markdown |-> NoSummary],
     [type |-> "text", markdown |-> Separator],
     [type |-> "page", textStyle |-> "card", markdown |-> FullTranscriptTitle,
      content |-> <<[type |-> "text", markdown |-> NoTranscript]>>]}

InitSend ==
    /\ pc = "call"
    /\ yesterday \in Dates
    /\ docs = <<>>
    /\ target_docs = <<>>
    /\ idx = 0
    /\ summary_html = <<>>
    /\ content_md = <<>>
    /\ transcript_segments = <<>>
    /\ transcript_text = <<>>
    /\ meeting_blocks = <<>>
    /\ success = PyNone
    /\ log = <<>>
    /\ call \in {[fn |-> "send_blocks_to_craft", arg |-> blocks,
                  resp |-> [status |-> 200], ret |-> PyNone] :
                    blocks \in SeqsUpTo(BlockPool, MaxBlocks)}

CallSend(resp) ==
    /\ pc = "call"
    /\ LET sent == send_blocks_to_craft(call.arg, isoformat(yesterday), resp)
       IN  /\ call' = [call EXCEPT !.resp = resp, !.ret = sent.ret]
           /\ log' = log \o sent.requests
    /\ pc' = "returned"
    /\ UNCHANGED <<yesterday, docs, target_docs, idx, summary_html, content_md,
                   transcript_segments, transcript_text, meeting_blocks, success>>

NextSend == pc = "call" /\ \E resp \in SendsAll : CallSend(resp)

SpecSend == InitSend /\ [][NextSend]_vars

-----------------------------------------------------------------------------
(* What the claims speak of, read off the log of requests                   *)

Range(s) == {s[i] : i \in 1..Len(s)}

\* the positions in the log of the submissions to the destination
Submissions == {i \in 1..Len(log) : log[i].op = "blocks"}
FailedSubmissions == {i \in Submissions : Raises(log[i].resp)}

\* the header submission the specification describes
ExpectedHeader ==
    <<[type |-> "text", textStyle |-> "h1",
       markdown |-> HeaderPrefix \o isoformat(yesterday) \o <<")">>]>>
HeaderSubmissions == {i \in Submissions : log[i].payload.blocks = ExpectedHeader}
MeetingSubmissions == Submissions \ HeaderSubmissions

\* the meetings of the list response that fall on the target date, in list order
ListedMeetings == IF log = <<>> \/ Raises(log[1].resp) THEN <<>> ELSE log[1].resp.json
OnTargetDate(d) ==
    /\ "created_at" \in DOMAIN d
    /\ Len(d.created_at) >= 10
    /\ \A k \in 1..10 : d.created_at[k] = isoformat(yesterday)[k]
SelectedMeetings == SelectSeq(ListedMeetings, OnTargetDate)

HasTitle(d) == "title" \in DOMAIN d /\ d.title # None /\ d.title # <<>>
ExpectedTitle(d) == IF HasTitle(d) THEN d.title ELSE UntitledMeeting

\* the requests made after the list request and the header submission
MeetingRequests == SubSeq(log, 3, Len(log))

\* request j of reqs is the one the processing of the meetings sel, one at a
\* time and in order, calls for
InOrder(j, reqs, sel) ==
    LET m == ((j - 1) \div 3) + 1
        r == (j - 1) % 3
        e == reqs[j]
    IN  /\ m <= Len(sel)
        /\ CASE r = 0 -> e.op = "get-document-panels" /\ e.document_id = sel[m].id
             [] r = 1 -> e.op = "get-document-transcript" /\ e.document_id = sel[m].id
             [] r = 2 -> e.op = "blocks" /\ e.payload.blocks[1].markdown = ExpectedTitle(sel[m])

\* C1: when a run selects at least one meeting, the header block is submitted
\* exactly once, alone in its submission, and before any meeting's blocks;
\* nothing is submitted before it
C1_HeaderOnceBeforeMeetings ==
    /\ pc \in {"start", "header"} => Submissions = {}
    /\ (pc \in {"panels", "transcript", "send", "done"} /\ target_docs # <<>>) =>
          LET subs == Submissions
              header == ExpectedHeader
              headers == {i \in subs : log[i].payload.blocks = header}
          IN  /\ Cardinality(headers) = 1
              /\ \A h \in headers :
                    /\ Len(log[h].payload.blocks) = 1
                    /\ \A i \in subs \ headers : h < i

C1_Witness ==
    /\ pc = "done"
    /\ Len(target_docs) >= 2
    /\ Cardinality(HeaderSubmissions) = 1
    /\ Cardinality(MeetingSubmissions) >= 2

\* C2: the requests after the header are, for each meeting of the list whose
\* created_at starts with the target date and in list order, its panel fetch,
\* its transcript fetch and its one submission, each meeting's three before
\* the next meeting's first; a finished run has made them all, and a run that
\* selects nothing makes no request after the list request
C2_SequentialInOrder ==
    LET sel == SelectedMeetings
        reqs == MeetingRequests
    IN  /\ \A j \in 1..Len(reqs) : InOrder(j, reqs, sel)
        /\ pc = "done" => Len(log) = IF sel = <<>> THEN 1 ELSE 2 + 3 * Len(sel)

C2_Witness ==
    /\ pc = "done"
    /\ Len(SelectedMeetings) >= 2
    /\ Len(ListedMeetings) > Len(SelectedMeetings)
    /\ SelectedMeetings[1].id # SelectedMeetings[2].id
    /\ ListedMeetings[1].id # SelectedMeetings[1].id
    /\ Cardinality(MeetingSubmissions) = Len(SelectedMeetings)

\* C3: a failed submission does not end the run and is not retried: the
\* request after a failed submission is never a submission, and a finished
\* run has fetched and submitted every selected meeting once, whatever failed
C3_FailedSubmissionDoesNotHalt ==
    LET failed == FailedSubmissions
    IN  failed # {} =>
          /\ \A f \in failed : f < Len(log) => log[f + 1].op = "get-document-panels"
          /\ pc = "done" =>
                /\ Len(log) = 2 + 3 * Len(target_docs)
                /\ \A m \in 1..Len(target_docs) :
                      /\ log[3 * m].op = "get-document-panels"
                      /\ log[3 * m].document_id = target_docs[m].id
                      /\ log[3 * m + 1].op = "get-document-transcript"
                      /\ log[3 * m + 1].document_id = target_docs[m].id
                      /\ log[3 * m + 2].op = "blocks"

C3_Witness ==
    /\ pc = "done"
    /\ \E f \in FailedSubmissions \cap MeetingSubmissions :
          \E i \in MeetingSubmissions : f < i
    /\ \E f \in FailedSubmissions \cap HeaderSubmissions : TRUE

\* the panels and the segments a fetch gave the program, as the claims put it:
\* nothing when the fetch failed
Fetched(e) == IF Raises(e.resp) THEN <<>> ELSE e.resp.json

IsSummaryPanel(p) == "title" \in DOMAIN p /\ p.title = SummaryTitle
SummaryPanels(ps) == {k \in 1..Len(ps) : IsSummaryPanel(ps[k])}
FirstSummaryPanel(ps) ==
    ps[CHOOSE k \in SummaryPanels(ps) : \A j \in SummaryPanels(ps) : k <= j]
HasContent(p) ==
    "original_content" \in DOMAIN p /\ p.original_content # <<>> /\ p.original_content # None

\* the positions in the log where a meeting's three requests begin
MeetingStarts == {i \in 1..Len(log) : log[i].op = "get-document-panels" /\ i + 2 <= Len(log)}

SummaryOf(blocks) == blocks[2].markdown
TranscriptOf(blocks) == blocks[3].content[1].markdown

C7_FourBlocksInOrder ==
    LET sel == SelectedMeetings
    IN  \A i \in MeetingStarts :
          LET blocks == log[i + 2].payload.blocks
              doc == sel[i \div 3]
          IN  /\ log[i + 2].op = "blocks"
              /\ Len(blocks) = 4
              /\ blocks[1] = [type |-> "text", textStyle |-> "h2", markdown |-> ExpectedTitle(doc)]
              /\ DOMAIN blocks[2] = {"type", "markdown"}
              /\ blocks[2].type = "text"
              /\ DOMAIN blocks[3] = {"type", "textStyle", "markdown", "content"}
              /\ blocks[3].type = "page"
              /\ blocks[3].textStyle = "card"
              /\ blocks[3].markdown = FullTranscriptTitle
              /\ Len(blocks[3].content) = 1
              /\ DOMAIN blocks[3].content[1] = {"type", "markdown"}
              /\ blocks[3].content[1].type = "text"
              /\ blocks[4] = [type |-> "text", markdown |-> Separator]

C7_Witness ==
    /\ pc = "done"
    /\ Len(log) = 5
    /\ ~HasTitle(SelectedMeetings[1])
    /\ SummaryPanels(Fetched(log[3])) = {}
    /\ Fetched(log[4]) = <<>>
    /\ log[5].payload.blocks[1].markdown = UntitledMeeting

\* C8 as stated: the summary block is 'No summary available.' exactly when the
\* meeting has no panel titled Summary, and otherwise holds the conversion of
\* the first such panel's original_content
C8_PlaceholderIffNoSummaryPanel ==
    \A i \in MeetingStarts :
        LET ps == Fetched(log[i])
            md == SummaryOf(log[i + 2].payload.blocks)
        IN  /\ (md = NoSummary) <=> (SummaryPanels(ps) = {})
            /\ SummaryPanels(ps) # {} =>
                  md = html_to_markdown(Get(FirstSummaryPanel(ps), "original_content", <<>>))

\* C8 amended: the summary block is 'No summary available.' when the meeting
\* has no panel titled Summary or the first such panel has no or an empty
\* original_content; otherwise it holds the conversion of the first such
\* panel's original_content, whatever later panels hold
C8_FirstSummaryPanelOrPlaceholder ==
    \A i \in MeetingStarts :
        LET ps == Fetched(log[i])
            md == SummaryOf(log[i + 2].payload.blocks)
        IN  md = IF SummaryPanels(ps) = {} \/ ~HasContent(FirstSummaryPanel(ps))
                 THEN NoSummary
                 ELSE html_to_markdown(FirstSummaryPanel(ps).original_content)

C8_Witness ==
    /\ pc = "done"
    /\ Len(log) = 5
    /\ Cardinality(SummaryPanels(Fetched(log[3]))) = 2
    /\ HasContent(FirstSummaryPanel(Fetched(log[3])))
    /\ SummaryOf(log[5].payload.blocks) = <<"#", "#", "#", " ", "x">>

\* what a segment contributes to the transcript, as the specification puts it:
\* its glyph and its trimmed text, or nothing when the trimmed text is empty
Trimmed(seg) == IF "text" \in DOMAIN seg THEN strip(seg.text) ELSE <<>>
Glyph(seg) ==
    IF "source" \in DOMAIN seg /\ seg.source = Microphone
    THEN <<"U+1F399", "U+FE0F", " ">>
    ELSE <<"U+1F4BB", " ">>
Contributions(segments) ==
    LET said == SelectSeq(segments, LAMBDA seg : Trimmed(seg) # <<>>)
    IN  [k \in 1..Len(said) |-> Glyph(said[k]) \o Trimmed(said[k])]

\* the texts of ts in order, a blank line between one and the next
RECURSIVE JoinBlankLine(_)
JoinBlankLine(ts) ==
    IF ts = <<>> THEN <<>>
    ELSE IF Len(ts) = 1 THEN ts[1]
    ELSE ts[1] \o <<"\n", "\n">> \o JoinBlankLine(Tail(ts))

\* C9: format_transcript gives 'No transcript available.' for no segments; for
\* any other sequence it gives the contributions of the segments whose trimmed
\* text is not empty, in order, a blank line between them, and the result does
\* not end in white space
C9_FormatTranscript ==
    pc \in {"send", "done"} /\ target_docs # <<>> =>
        /\ transcript_text =
              IF transcript_segments = <<>> \/ transcript_segments = NoneList
              THEN NoTranscript
              ELSE JoinBlankLine(Contributions(transcript_segments))
        /\ transcript_text = <<>> \/ transcript_text[Len(transcript_text)] \notin Whitespace

C9_Witness ==
    /\ pc = "send"
    /\ Len(transcript_segments) = 3
    /\ Len(Contributions(transcript_segments)) = 2
    /\ Trimmed(transcript_segments[2]) = <<>>
    /\ transcript_segments[1].text # Trimmed(transcript_segments[1])
    /\ Glyph(transcript_segments[1]) # Glyph(transcript_segments[3])

\* C6 as stated: the text inside the transcript page is the transcript itself
\* when that has at most 50,000 characters, and its first 50,000 characters
\* followed by the truncation notice when it has more
C6_TruncatedOnlyAboveLimit ==
    pc \in {"send", "done"} /\ target_docs # <<>> =>
        TranscriptOf(meeting_blocks) =
            IF Len(transcript_text) <= 50000 THEN transcript_text
            ELSE SubSeq(transcript_text, 1, 50000) \o TruncatedSuffix

ContainsTripleNewline(s) ==
    \E i \in 1..(Len(s) - 2) : s[i] = "\n" /\ s[i + 1] = "\n" /\ s[i + 2] = "\n"

\* every '<' of s opens a tag that a '>' ends, and s has no other '<' or '>'
RECURSIVE OnlyTagDelimiters(_, _)
OnlyTagDelimiters(s, i) ==
    IF i > Len(s) THEN TRUE
    ELSE IF s[i] = ">" THEN FALSE
    ELSE IF s[i] # "<" THEN OnlyTagDelimiters(s, i + 1)
    ELSE LET from == IF i < Len(s) /\ s[i + 1] = "/" THEN i + 2 ELSE i + 1
             gt == Find(s, from, ">")
         IN  /\ from <= Len(s)
             /\ s[from] \in Letters
             /\ gt # 0
             /\ "<" \notin Range(SubSeq(s, from, gt - 1))
             /\ OnlyTagDelimiters(s, gt + 1)

\* C10 as stated: the conversion's output holds no '<' or '>' and no three
\* newlines in a row, and converting it again changes nothing
C10_IdempotentNoMarkup ==
    pc \in {"transcript", "send", "done"} /\ summary_html # <<>> =>
        /\ "<" \notin Range(content_md)
        /\ ">" \notin Range(content_md)
        /\ ~ContainsTripleNewline(content_md)
        /\ html_to_markdown(content_md) = content_md

\* C10 amended: the conversion's output never holds three newlines in a row;
\* and for an input without '&' in which '<' and '>' only delimit tags, the
\* output holds no '<' or '>' and converting it again changes nothing
C10_IdempotentWithoutReferences ==
    pc \in {"transcript", "send", "done"} /\ summary_html # <<>> =>
        /\ ~ContainsTripleNewline(content_md)
        /\ ("&" \notin Range(summary_html) /\ OnlyTagDelimiters(summary_html, 1)) =>
              /\ "<" \notin Range(content_md)
              /\ ">" \notin Range(content_md)
              /\ html_to_markdown(content_md) = content_md

C10_Witness ==
    /\ pc = "transcript"
    /\ ContainsTripleNewline(summary_html)
    /\ "<" \in Range(summary_html)
    /\ "&" \notin Range(summary_html)
    /\ OnlyTagDelimiters(summary_html, 1)
    /\ Len(content_md) > 4
    /\ "\n" \in Range(content_md)

\* C5 as stated: send_blocks_to_craft with no blocks sends nothing and returns
\* True, as a successful submission does
C5_EmptyIsNoOpSuccess ==
    (pc = "returned" /\ call.arg = <<>>) => (log = <<>> /\ call.ret = PyTrue)

====
